---------------------------- MODULE Spec2Model ----------------------------
(***************************************************************************)
(* Flight-stabilization core of the glider firmware: the release safety    *)
(* state machine (release_system.py), the RC pulse decoder (hardware.py),   *)
(* the PID stabilizer (pid_controller.py, main.py) and the control loop     *)
(* (main_modular.py).  Times are milliseconds as returned by                *)
(* time.ticks_ms(); angles are degrees; PID quantities are fixed point.     *)
(***************************************************************************)
EXTENDS Integers, Sequences, FiniteSets, TLC

(***************************************************************************)
(* Configuration (config.py)                                               *)
(***************************************************************************)
locked_position == 45
release_position == 135
rc_threshold == 1700
safety_delay == 2000
auto_lock_time == 5000
release_duration == 500
rc_read_interval == 50
rc_min_pulse == 800
rc_max_pulse == 2200
rc_neutral_pulse == 1500
servo_min_angle == 30
servo_max_angle == 150
servo_neutral_angle == 90

(***************************************************************************)
(* Bounds of the model                                                     *)
(***************************************************************************)
\* largest clock value explored (ms)
MaxTime == 6000

\* time that may pass between two operations (ms)
Deltas == {500, 2500}

\* pulse widths the input pin may present (us); 3000 is out of range
PulseWidths == {1500, 1700, 1800, 3000}

\* attitudes (roll, pitch, yaw rate) handed to the PID, whole degrees
Attitudes == {<<0, 0, 0>>, <<50, 40, 30>>, <<0 - 100, 100, 0 - 100>>}

\* time steps handed to calculate(), ms
Dts == {0, 100}

\* mode indices handed to set_flight_mode()
ModeArgs == 0 - 1 .. 3

\* no rising edge within sensor_timeout polls, or the pin read raised
NoPulse == 0 - 1

Measurements == PulseWidths \cup {NoPulse}

ReleaseStates == {"LOCKED", "ARMED", "RELEASING", "RELEASED"}

VARIABLES
    now,                \* time.ticks_ms()
    state,              \* ReleaseSystem.state
    armed_time,         \* ReleaseSystem.armed_time
    release_time,       \* ReleaseSystem.release_time
    servo,              \* ReleaseSystem.servo is not None
    servoAngle,         \* last angle given to ReleaseSystem._set_servo_position
    emergency_override, \* RELEASE_CONFIG['emergency_override']
    rc_pin,             \* RCReceiver.rc_pin is not None
    last_read_time,     \* RCReceiver.last_read_time
    op,                 \* the operation that ran last
    rc_signal,          \* value read_channel() returned to the last update()
    ret,                \* value the last operation returned
    raised,             \* the last operation ended with an exception
    quiet,              \* history: every rc seen by update() was below the
                        \* threshold and emergency_release() was never called
    sustained,          \* history: every rc seen since arming was > threshold
    noneBelow,          \* history: no rc seen since arming was < threshold
    integral,           \* PIDController.integral, in 1/1000
    prev_error,         \* PIDController.prev_error, in 1/1000
    flight_mode,        \* PIDController.flight_mode
    pid_out,            \* value the last calculate() returned, in 1/100000
    commands,           \* angles the last command calculation returned
    pid_integral,       \* PlanadorESP32.pid_integral, in 1/1000
    firmware,           \* the program running: main_modular.py or main.py
    simulator,          \* PlanadorSimulator: pid_integral (1/1000), the last
                        \* PID outputs (1/100000) and servo commands
    esp32,              \* PlanadorESP32's release fields: release_state,
                        \* release_armed_time, release_time, whether
                        \* release_servo is set, the angle last given to it
    presses,            \* history: the calls of read_buttons() so far, and
                        \* for each button whether it was down at the last
                        \* call and the calls and clicks of its latest press
    pc,                 \* where PlanadorSystem.run() stands
    system_active,      \* PlanadorSystem.system_active
    loop_count,         \* PlanadorSystem.loop_count
    last_telemetry_time, \* PlanadorSystem.last_telemetry_time
    ctrl,               \* angles last given to the four control servos
    ctrlDeinit,         \* the control servos' PWM handles were released
    mode_button_last,   \* ButtonManager.mode_button_last
    power_button_last,  \* ButtonManager.power_button_last
    last_button_time,   \* ButtonManager.last_button_time
    rc_pc,              \* where a running read of the RC pin stands
    timeout,            \* the local counter of the read's polling loops
    poll_us,            \* microseconds one iteration of a polling loop takes
    using_real_sensor,  \* SensorManager.using_real_sensor
    sim_start,          \* SimulatedSensor.start_time of the simulated source
    sample              \* what the last read_attitude() returned

vars == <<now, state, armed_time, release_time, servo, servoAngle,
          emergency_override, rc_pin, last_read_time, op, rc_signal, ret,
          raised, quiet, sustained, noneBelow, integral, prev_error,
          flight_mode, pid_out, commands, pid_integral, firmware, esp32,
          simulator, presses, pc, system_active,
          loop_count, last_telemetry_time, ctrl, ctrlDeinit, mode_button_last,
          power_button_last, last_button_time, rc_pc, timeout, poll_us,
          using_real_sensor, sim_start, sample>>

relVars == <<state, armed_time, release_time, servo, servoAngle>>
histVars == <<quiet, sustained, noneBelow>>
rcVars == <<rc_pin, last_read_time, rc_signal>>
pidVars == <<integral, prev_error, flight_mode, pid_out, commands>>
monoVars == <<pid_integral, firmware, esp32, simulator, presses>>
buttonVars == <<mode_button_last, power_button_last, last_button_time>>
pollVars == <<rc_pc, timeout, poll_us>>
sensorVars == <<using_real_sensor, sim_start, sample>>
sysVars == <<pc, system_active, loop_count, last_telemetry_time, ctrl,
             ctrlDeinit, buttonVars, sensorVars>>

(***************************************************************************)
(* time.ticks_diff: signed difference of two wrapping tick counters        *)
(***************************************************************************)
ticks_diff(a, b) == ((a - b + 2^29) % 2^30) - 2^29

(***************************************************************************)
(* The release mechanism and the RC decoder as one record, so that the     *)
(* operations can be composed inside a tick of the control loop            *)
(***************************************************************************)
Rel ==
    [state |-> state, armed_time |-> armed_time,
     release_time |-> release_time, servo |-> servo,
     servoAngle |-> servoAngle, last_read_time |-> last_read_time,
     rc_signal |-> rc_signal, now |-> now, ret |-> FALSE, raised |-> FALSE]

SetRel(r) ==
    /\ state' = r.state
    /\ armed_time' = r.armed_time
    /\ release_time' = r.release_time
    /\ servo' = r.servo
    /\ servoAngle' = r.servoAngle
    /\ last_read_time' = r.last_read_time
    /\ rc_signal' = r.rc_signal
    /\ now' = r.now
    /\ ret' = r.ret
    /\ raised' = r.raised

(***************************************************************************)
(* RCReceiver.read_channel (hardware.py): the value returned for the       *)
(* measurement m, and the time of the last fresh measurement               *)
(***************************************************************************)
RateLimited(r) == ticks_diff(r.now, r.last_read_time) < rc_read_interval

InRange(w) == rc_min_pulse <= w /\ w <= rc_max_pulse

read_channel(r, m) ==
    IF ~rc_pin \/ RateLimited(r)
    THEN [value |-> rc_neutral_pulse, last_read_time |-> r.last_read_time]
    ELSE [value |-> IF m # NoPulse /\ InRange(m) THEN m ELSE rc_neutral_pulse,
          last_read_time |-> r.now]

(***************************************************************************)
(* ReleaseSystem (release_system.py)                                       *)
(***************************************************************************)
ReleaseInit ==
    /\ state = "LOCKED"
    /\ armed_time = 0
    /\ release_time = 0
    /\ servo = TRUE
    /\ servoAngle = locked_position

\* _handle_locked_state with the comparison inverted
ArmGuardInverted(rc) == rc < rc_threshold

\* _handle_locked_state
ArmGuard(rc) == rc > rc_threshold

\* _handle_armed_state disarming below the neutral pulse only
DisarmGuardNeutral(rc) == rc < rc_neutral_pulse

\* _handle_armed_state, first test
DisarmGuard(rc) == rc < rc_threshold

\* _handle_armed_state, second test, without the delay
ReleaseGuardNoDelay(r, rc) == rc > rc_threshold

\* _handle_armed_state, second test
ReleaseGuard(r, rc) ==
    /\ ticks_diff(r.now, r.armed_time) >= safety_delay
    /\ rc > rc_threshold

\* _initiate_release that leaves the servo where it is
initiate_release_no_servo(r) ==
    [r EXCEPT !.state = "RELEASING", !.release_time = r.now]

\* _initiate_release(current_time)
initiate_release(r) ==
    [r EXCEPT !.state = "RELEASING", !.release_time = r.now,
              !.servoAngle = release_position]

\* emergency_release that starts the release instead of completing it
EmergencyStateReleasing == "RELEASING"

\* the state emergency_release() forces
EmergencyState == "RELEASED"

\* the handlers update() can call with (current_time, rc_signal)
HandlerAcceptsCall(s) == s \in {"LOCKED", "ARMED"}

\* _handle_locked_state(current_time, rc_signal)
handle_locked_state(r, rc) ==
    IF ArmGuard(rc)
    THEN [r EXCEPT !.state = "ARMED", !.armed_time = r.now]
    ELSE r

\* _handle_armed_state(current_time, rc_signal)
handle_armed_state(r, rc) ==
    IF DisarmGuard(rc) THEN [r EXCEPT !.state = "LOCKED"]
    ELSE IF ReleaseGuard(r, rc) THEN initiate_release(r)
    ELSE r

\* update() that reads the RC channel before it tests the servo handle
update_reads_first(r, m) ==
    LET ch == read_channel(r, m)
        r1 == [r EXCEPT !.rc_signal = ch.value,
                        !.last_read_time = ch.last_read_time]
    IN IF ~r.servo THEN r1
       ELSE IF ~HandlerAcceptsCall(r.state) THEN [r1 EXCEPT !.raised = TRUE]
       ELSE IF r.state = "LOCKED" THEN handle_locked_state(r1, ch.value)
       ELSE handle_armed_state(r1, ch.value)

\* update(): one step of the state machine for the measurement m; the
\* handlers of RELEASING and RELEASED take one argument and are called with
\* two, which raises TypeError
update_result(r, m) ==
    IF ~r.servo THEN r
    ELSE LET ch == read_channel(r, m)
             r1 == [r EXCEPT !.rc_signal = ch.value,
                             !.last_read_time = ch.last_read_time]
         IN IF ~HandlerAcceptsCall(r.state) THEN [r1 EXCEPT !.raised = TRUE]
            ELSE IF r.state = "LOCKED" THEN handle_locked_state(r1, ch.value)
            ELSE handle_armed_state(r1, ch.value)

\* lock() that moves the servo and leaves the state as it is
lock_servo_only(r) ==
    IF r.servo THEN [r EXCEPT !.servoAngle = locked_position] ELSE r

\* lock()
lock_result(r) ==
    IF r.servo
    THEN [r EXCEPT !.servoAngle = locked_position, !.state = "LOCKED"]
    ELSE r

\* force_lock()
force_lock_result(r) ==
    IF r.servo
    THEN [r EXCEPT !.servoAngle = locked_position, !.state = "LOCKED"]
    ELSE r

\* LEDManager.alert_sequence(count): count blinks of 100 ms on, 100 ms off
alert_duration(count, ledAlert) == IF ledAlert THEN count * 200 ELSE 0

\* emergency_release() without the test of emergency_override
emergency_release_no_override_test(r, ledAlert) ==
    IF ~r.servo THEN [r EXCEPT !.ret = FALSE]
    ELSE [r EXCEPT !.servoAngle = release_position,
                   !.state = "RELEASED",
                   !.release_time = r.now,
                   !.now = r.now + alert_duration(5, ledAlert),
                   !.ret = TRUE]

\* emergency_release(); ledAlert: the alert LED is available
emergency_release_result(r, ledAlert) ==
    IF ~emergency_override \/ ~r.servo THEN [r EXCEPT !.ret = FALSE]
    ELSE [r EXCEPT !.servoAngle = release_position,
                   !.state = EmergencyState,
                   !.release_time = r.now,
                   !.now = r.now + alert_duration(5, ledAlert),
                   !.ret = TRUE]

\* cleanup(): servo to the locked position, 500 ms, then the handle is
\* released; state is left as it is
cleanup_result(r) ==
    IF r.servo
    THEN [r EXCEPT !.servoAngle = locked_position, !.servo = FALSE,
                   !.now = r.now + 500]
    ELSE r

\* the history variables as a record
Hist == [quiet |-> quiet, sustained |-> sustained, noneBelow |-> noneBelow]

SetHist(h) ==
    /\ quiet' = h.quiet
    /\ sustained' = h.sustained
    /\ noneBelow' = h.noneBelow

\* the history after update() took r to u
HistUpdate(h, r, u) ==
    [quiet |-> IF r.servo THEN h.quiet /\ u.rc_signal < rc_threshold
               ELSE h.quiet,
     sustained |->
         IF ~r.servo \/ u.raised THEN h.sustained
         ELSE IF r.state = "LOCKED" THEN (u.state = "ARMED" \/ h.sustained)
         ELSE h.sustained /\ u.rc_signal > rc_threshold,
     noneBelow |->
         IF ~r.servo \/ u.raised THEN h.noneBelow
         ELSE IF r.state = "LOCKED" THEN (u.state = "ARMED" \/ h.noneBelow)
         ELSE h.noneBelow /\ u.rc_signal >= rc_threshold]

\* the history after a call of emergency_release()
HistEmergency(h) == [h EXCEPT !.quiet = FALSE]

update(m) ==
    LET u == update_result(Rel, m)
    IN /\ op' = "update"
       /\ SetRel(u)
       /\ SetHist(HistUpdate(Hist, Rel, u))
       /\ UNCHANGED <<emergency_override, rc_pin, pidVars, monoVars, pollVars, sysVars>>

lock ==
    /\ op' = "lock"
    /\ SetRel(lock_result(Rel))
    /\ UNCHANGED <<emergency_override, rc_pin, histVars, pidVars, monoVars, pollVars, sysVars>>

force_lock ==
    /\ op' = "force_lock"
    /\ SetRel(force_lock_result(Rel))
    /\ UNCHANGED <<emergency_override, rc_pin, histVars, pidVars, monoVars, pollVars, sysVars>>

emergency_release(ledAlert) ==
    LET u == emergency_release_result(Rel, ledAlert)
    IN /\ op' = "emergency_release"
       /\ SetRel(u)
       /\ SetHist(HistEmergency(Hist))
       /\ UNCHANGED <<emergency_override, rc_pin, pidVars, monoVars, pollVars, sysVars>>

cleanup ==
    /\ op' = "cleanup"
    /\ SetRel(cleanup_result(Rel))
    /\ UNCHANGED <<emergency_override, rc_pin, histVars, pidVars, monoVars, pollVars, sysVars>>

(***************************************************************************)
(* The release state machine of the monolithic firmware (main.py)          *)
(***************************************************************************)
\* PlanadorESP32.__init__ and init_servos: LOCKED, servo at locked_position
ESP32Init ==
    [release_state |-> "LOCKED", release_armed_time |-> 0,
     release_time |-> 0, release_servo |-> TRUE,
     release_angle |-> locked_position]

\* lock_release_system()
lock_release_system(e) ==
    IF e.release_servo
    THEN [e EXCEPT !.release_angle = locked_position,
                   !.release_state = "LOCKED"]
    ELSE e

\* update_release_system() at current_time t with read_rc_signal() = rc
update_release_system(e, t, rc) ==
    IF ~e.release_servo THEN e
    ELSE IF e.release_state = "LOCKED"
    THEN IF rc > rc_threshold
         THEN [e EXCEPT !.release_state = "ARMED", !.release_armed_time = t]
         ELSE e
    ELSE IF e.release_state = "ARMED"
    THEN IF rc < rc_threshold THEN [e EXCEPT !.release_state = "LOCKED"]
         ELSE IF ticks_diff(t, e.release_armed_time) >= safety_delay
                   /\ rc > rc_threshold
         THEN [e EXCEPT !.release_state = "RELEASING", !.release_time = t]
         ELSE e
    ELSE IF e.release_state = "RELEASING"
    THEN [e EXCEPT !.release_angle = release_position,
                   !.release_state =
                       IF ticks_diff(t, e.release_time) >= release_duration
                       THEN "RELEASED" ELSE "RELEASING"]
    ELSE IF ticks_diff(t, e.release_time) >= auto_lock_time
    THEN lock_release_system(e)
    ELSE e

\* the value read_rc_signal() returns for a pulse of width m
read_rc_signal(m) == IF InRange(m) THEN m ELSE rc_neutral_pulse

\* both firmwares are given the same sample: after d ms the pin presents a
\* pulse of width m to ReleaseSystem.update() and to
\* PlanadorESP32.update_release_system()
both_update(d, m) ==
    LET r == [Rel EXCEPT !.now = now + d]
        u == update_result(r, m)
    IN /\ now + d <= MaxTime
       /\ op' = "both_update"
       /\ SetRel(u)
       /\ SetHist(HistUpdate(Hist, r, u))
       /\ esp32' = update_release_system(esp32, now + d, read_rc_signal(m))
       /\ UNCHANGED <<emergency_override, rc_pin, pidVars, pid_integral,
                      firmware, simulator, presses, pollVars, sysVars>>

\* the clock advances between operations
Advance(d) ==
    /\ now + d <= MaxTime
    /\ now' = now + d
    /\ op' = "advance"
    /\ UNCHANGED <<pidVars, monoVars, pollVars, sysVars>>
    /\ UNCHANGED <<relVars, emergency_override, rc_pin, last_read_time,
                   rc_signal, ret, raised, histVars>>

(***************************************************************************)
(* The RC decoder, one poll of the input pin at a time:                    *)
(* RCReceiver.read_channel (hardware.py) and PlanadorESP32.read_rc_signal  *)
(* (main.py).  A poll of the pin yields 0, 1 or an exception; the width    *)
(* measured is the number of polls that saw the pin high times poll_us.    *)
(***************************************************************************)
sensor_timeout == 10000
rc_timeout == 3000
mono_poll_limit == 100

\* microseconds one loop iteration may take
PollCosts == {1, 10}

\* rc_pin.value() raised
PinRaises == 0 - 1

\* what a poll of the pin yields
PinValues == {0, 1, PinRaises}

\* time between two calls of the decoder (ms)
RCDeltas == {3000}

\* the range test without the lower limit
decode_width_no_floor(w) == IF w <= rc_max_pulse THEN w ELSE rc_neutral_pulse

\* read_channel, line 333, and read_rc_signal, lines 213-216
decode_width(w) == IF InRange(w) THEN w ELSE rc_neutral_pulse

\* the first loop giving up five polls late
WaitHighExpiredLate(t) == t > sensor_timeout + 5

\* read_channel, line 323: the test that gives up waiting for the rising edge
WaitHighExpired(t) == t > sensor_timeout

\* read_channel, line 329: the test that stops measuring
WaitLowExpired(t) == t > rc_timeout

\* ret while a read is running
NoValue == 0

\* the call returns value v; how says which way the call ended
rc_return(v, how) ==
    /\ rc_pc' = "idle"
    /\ op' = how
    /\ ret' = v
    /\ raised' = FALSE

\* read_channel(), lines 317-321: the tests before the first loop
read_channel_begin ==
    /\ rc_pc = "idle"
    /\ IF ~rc_pin \/ ticks_diff(now, last_read_time) < rc_read_interval
       THEN /\ rc_return(rc_neutral_pulse, "rc_skipped")
            /\ UNCHANGED <<last_read_time, timeout>>
       ELSE /\ rc_pc' = "wait_high"
            /\ op' = "rc_begin"
            /\ last_read_time' = now
            /\ timeout' = 0
            /\ ret' = NoValue
            /\ raised' = FALSE
    /\ UNCHANGED <<now, relVars, emergency_override, rc_pin, rc_signal,
                   histVars, pidVars, monoVars, poll_us, sysVars>>

\* read_channel(), lines 322-325: one iteration of the loop that waits for
\* the rising edge; v is what rc_pin.value() yields
read_channel_wait_high(v) ==
    /\ rc_pc = "wait_high"
    /\ IF v = PinRaises
       THEN rc_return(rc_neutral_pulse, "rc_error") /\ UNCHANGED timeout
       ELSE IF v = 1
       THEN /\ rc_pc' = "wait_low"
            /\ op' = "rc_rising_edge"
            /\ timeout' = 0
            /\ UNCHANGED <<ret, raised>>
       ELSE IF WaitHighExpired(timeout)
       THEN rc_return(rc_neutral_pulse, "rc_no_edge") /\ UNCHANGED timeout
       ELSE /\ timeout' = timeout + 1
            /\ op' = "rc_poll"
            /\ UNCHANGED <<rc_pc, ret, raised>>
    /\ UNCHANGED <<now, relVars, emergency_override, rc_pin, last_read_time,
                   rc_signal, histVars, pidVars, monoVars, poll_us, sysVars>>

\* read_channel(), lines 328-333: one iteration of the loop that measures the
\* pulse, and the return that follows the loop
read_channel_wait_low(v) ==
    /\ rc_pc = "wait_low"
    /\ IF v = PinRaises
       THEN rc_return(rc_neutral_pulse, "rc_error") /\ UNCHANGED timeout
       ELSE IF v = 0 \/ WaitLowExpired(timeout)
       THEN rc_return(decode_width(timeout * poll_us), "rc_measured")
            /\ UNCHANGED timeout
       ELSE /\ timeout' = timeout + 1
            /\ op' = "rc_poll"
            /\ UNCHANGED <<rc_pc, ret, raised>>
    /\ UNCHANGED <<now, relVars, emergency_override, rc_pin, last_read_time,
                   rc_signal, histVars, pidVars, monoVars, poll_us, sysVars>>

\* read_rc_signal(), lines 199-207: the tests before the loop
read_rc_signal_begin(v) ==
    /\ rc_pc = "idle"
    /\ IF ~rc_pin
       THEN rc_return(rc_neutral_pulse, "rc_skipped") /\ UNCHANGED timeout
       ELSE IF v = PinRaises
       THEN rc_return(rc_neutral_pulse, "rc_error") /\ UNCHANGED timeout
       ELSE IF v = 0
       THEN rc_return(rc_neutral_pulse, "rc_no_edge") /\ UNCHANGED timeout
       ELSE /\ rc_pc' = "mono_wait_low"
            /\ op' = "rc_begin"
            /\ timeout' = 0
            /\ ret' = NoValue
            /\ raised' = FALSE
    /\ UNCHANGED <<now, relVars, emergency_override, rc_pin, last_read_time,
                   rc_signal, histVars, pidVars, monoVars, poll_us, sysVars>>

\* read_rc_signal(), lines 208-219: one iteration of the loop, and the return
\* that follows the loop
read_rc_signal_wait_low(v) ==
    /\ rc_pc = "mono_wait_low"
    /\ IF v = PinRaises
       THEN rc_return(rc_neutral_pulse, "rc_error") /\ UNCHANGED timeout
       ELSE IF v = 1 /\ timeout < mono_poll_limit
       THEN /\ timeout' = timeout + 1
            /\ op' = "rc_poll"
            /\ UNCHANGED <<rc_pc, ret, raised>>
       ELSE rc_return(decode_width(timeout * poll_us), "rc_measured")
            /\ UNCHANGED timeout
    /\ UNCHANGED <<now, relVars, emergency_override, rc_pin, last_read_time,
                   rc_signal, histVars, pidVars, monoVars, poll_us, sysVars>>

(***************************************************************************)
(* PID stabilizer (pid_controller.py) and its monolithic twin (main.py).   *)
(* Angles and rates are whole degrees; errors, integrals and derivatives   *)
(* are kept in 1/1000, gains in 1/100, outputs in 1/100000.                *)
(***************************************************************************)
max_pid_integral == 10

\* STABILIZATION_GAINS, in 1/100: Kp, Ki, Kd for roll, pitch, yaw
STABILIZATION_GAINS == <<200, 15, 100, 250, 18, 120, 120, 6, 50>>

\* STABILIZATION_LIMITS, degrees
STABILIZATION_LIMITS == <<25, 30, 18>>

\* the flight-mode table: gains, limits, (roll, pitch) target, flap bias; the
\* bias of the last mode plus its roll limit passes servo_max_angle
FLIGHT_MODES ==
    [i \in 0..2 |->
        [gains |-> STABILIZATION_GAINS,
         limits |-> STABILIZATION_LIMITS,
         target |-> IF i = 2 THEN <<0, 5>> ELSE <<0, 0>>,
         flaps |-> IF i = 0 THEN 0 ELSE IF i = 1 THEN 10 ELSE 45]]

NumModes == Cardinality(DOMAIN FLIGHT_MODES)

Zero3 == <<0, 0, 0>>

Neutral4 == <<servo_neutral_angle, servo_neutral_angle, servo_neutral_angle,
              servo_neutral_angle>>

\* max(lo, min(hi, x))
Clamp(x, lo, hi) == IF x > hi THEN (IF hi < lo THEN lo ELSE hi)
                    ELSE IF x < lo THEN lo ELSE x

\* the integral clamp left out
ClampIntegralNone(x) == x

\* calculate(), line 101: the anti-windup clamp, in 1/1000
ClampIntegral(x) ==
    Clamp(x, 0 - max_pid_integral * 1000, max_pid_integral * 1000)

\* _limit_output returning its argument
limit_output_none(output, limit) == output

\* _limit_output(output, limit), output in 1/100000, limit in degrees
limit_output(output, limit) == Clamp(output, 0 - limit * 100000, limit * 100000)

\* calculate(): the errors for an attitude in degrees, in 1/1000
Errors(mode, att) ==
    <<(FLIGHT_MODES[mode].target[1] - att[1]) * 1000,
      (FLIGHT_MODES[mode].target[2] - att[2]) * 1000,
      (0 - att[3]) * 1000>>

\* calculate(): the integrals after the accumulation of lines 99-101
Accumulate(int, errs, dt) ==
    [i \in 1..3 |-> ClampIntegral(int[i] + (errs[i] * dt) \div 1000)]

\* calculate(): the derivatives of line 103, dt in ms and not 0
Derivatives(errs, prev, dt) ==
    [i \in 1..3 |-> ((errs[i] - prev[i]) * 1000) \div dt]

\* calculate(): the outputs of lines 106-114, in 1/100000
Outputs(mode, errs, int, der) ==
    LET g == FLIGHT_MODES[mode].gains
        l == FLIGHT_MODES[mode].limits
    IN [i \in 1..3 |->
          limit_output(g[3 * i - 2] * errs[i] + g[3 * i - 1] * int[i]
                         + g[3 * i] * der[i], l[i])]

\* PIDController.calculate(roll, pitch, yaw_rate, dt), dt in ms
calculate(att, dt) ==
    LET errs == Errors(flight_mode, att)
        int == Accumulate(integral, errs, dt)
    IN /\ op' = "calculate"
       /\ ret' = FALSE
       /\ integral' = int
       /\ IF dt = 0
          THEN \* ZeroDivisionError at line 103
               /\ raised' = TRUE
               /\ UNCHANGED <<prev_error, pid_out>>
          ELSE /\ raised' = FALSE
               /\ prev_error' = errs
               /\ pid_out' = Outputs(flight_mode, errs, int,
                                      Derivatives(errs, prev_error, dt))
       /\ UNCHANGED <<flight_mode, commands, monoVars, pollVars, sysVars, now, relVars, emergency_override,
                      rcVars, histVars>>

\* PIDController.reset()
reset ==
    /\ op' = "reset"
    /\ ret' = FALSE
    /\ raised' = FALSE
    /\ integral' = Zero3
    /\ prev_error' = Zero3
    /\ UNCHANGED <<flight_mode, pid_out, commands, monoVars, pollVars, sysVars, now,
                   relVars,
                   emergency_override, rcVars, histVars>>

\* set_flight_mode with the upper bound of line 45 included
set_flight_mode_inclusive(mode_index) ==
    /\ op' = "set_flight_mode"
    /\ raised' = FALSE
    /\ IF 0 <= mode_index /\ mode_index <= NumModes
       THEN /\ ret' = TRUE
            /\ IF flight_mode # mode_index
               THEN /\ flight_mode' = mode_index
                    /\ integral' = Zero3
                    /\ prev_error' = Zero3
               ELSE UNCHANGED <<flight_mode, integral, prev_error>>
       ELSE /\ ret' = FALSE
            /\ UNCHANGED <<flight_mode, integral, prev_error>>
    /\ UNCHANGED <<pid_out, commands, monoVars, pollVars, sysVars, now,
                   relVars, emergency_override, rcVars, histVars>>

\* PIDController.set_flight_mode(mode_index)
set_flight_mode(mode_index) ==
    /\ op' = "set_flight_mode"
    /\ raised' = FALSE
    /\ IF 0 <= mode_index /\ mode_index < NumModes
       THEN /\ ret' = TRUE
            /\ IF flight_mode # mode_index
               THEN /\ flight_mode' = mode_index
                    /\ integral' = Zero3
                    /\ prev_error' = Zero3
               ELSE UNCHANGED <<flight_mode, integral, prev_error>>
       ELSE /\ ret' = FALSE
            /\ UNCHANGED <<flight_mode, integral, prev_error>>
    /\ UNCHANGED <<pid_out, commands, monoVars, pollVars, sysVars, now, relVars,
                   emergency_override,
                   rcVars, histVars>>

\* PlanadorESP32.calculate_pid(): the accumulation, dt fixed at 0.02 s
MonoAccumulate(int, att) ==
    [i \in 1..3 |-> ClampIntegral(int[i] + ((0 - att[i]) * 1000 * 20) \div 1000)]

\* PlanadorESP32.calculate_pid(roll, pitch, yaw_rate)
calculate_pid(att) ==
    /\ op' = "calculate_pid"
    /\ ret' = FALSE
    /\ raised' = FALSE
    /\ pid_integral' = MonoAccumulate(pid_integral, att)
    /\ UNCHANGED <<firmware, esp32, simulator, presses, pollVars, pidVars, sysVars, now,
                   relVars,
                   emergency_override, rcVars,
                   histVars>>

PIDInit ==
    /\ integral = Zero3
    /\ prev_error = Zero3
    /\ flight_mode = 0
    /\ pid_out = Zero3
    /\ commands = Neutral4
    /\ pid_integral = Zero3

(***************************************************************************)
(* SensorManager (sensors.py).  A sample is the source it came from, the   *)
(* attitude the real sensor measured or the time the simulation has run,   *)
(* the is_valid flag, and whether the real sensor failed on that call.     *)
(***************************************************************************)
\* what the I2C read of the MPU6050 does: data, or an exception
SensorOutcomes == {"data", "raise"}

\* attitudes the simulated source computes, whole degrees: roll and pitch
\* stay within 6 degrees, the yaw rate within 2 degrees a second
SimAttitudes == {<<6, 0, 0>>}

NoSample == [src |-> "none", att |-> Zero3, t |-> 0, valid |-> FALSE,
             failed |-> FALSE]

\* SensorManager.__init__: probe is MPU6050.available after construction
SensorInit(probe) ==
    /\ using_real_sensor = probe
    /\ sim_start = 0
    /\ sample = NoSample

\* MPU6050.read_raw_data without its try/except
mpu_read_raw_data_unguarded(outcome) == outcome

\* MPU6050.read_raw_data: an exception of the read becomes None
mpu_read_raw_data(outcome) == IF outcome = "data" THEN "data" ELSE "none"

\* read_attitude, line 212, leaving the flag set
using_real_after_fallback_kept == TRUE

\* read_attitude, line 212: using_real_sensor after the fallback
using_real_after_fallback == FALSE

\* read_attitude(): the manager's fields and the sample returned; real and
\* start are using_real_sensor and the simulation's start_time before the
\* call, att what the real sensor measures if its read succeeds, simatt what
\* the simulation computes if it is asked
read_attitude_result(real, start, outcome, att, simatt, time) ==
    LET raw == IF real THEN mpu_read_raw_data(outcome) ELSE "data"
    IN IF raw = "raise"
       THEN \* lines 219-221
            [using_real_sensor |-> real, sim_start |-> start,
             sample |-> [src |-> "zero", att |-> Zero3, t |-> 0,
                         valid |-> FALSE, failed |-> real]]
       ELSE IF raw = "none"
       THEN \* lines 209-213 and 216-218; a simulated read never yields None
            [using_real_sensor |-> using_real_after_fallback,
             sim_start |-> time,
             sample |-> [src |-> "sim", att |-> simatt, t |-> 0,
                         valid |-> using_real_after_fallback,
                         failed |-> TRUE]]
       ELSE IF real
       THEN [using_real_sensor |-> TRUE, sim_start |-> start,
             sample |-> [src |-> "real", att |-> att, t |-> 0,
                         valid |-> TRUE, failed |-> FALSE]]
       ELSE [using_real_sensor |-> FALSE, sim_start |-> start,
             sample |-> [src |-> "sim", att |-> simatt,
                         t |-> ticks_diff(time, start),
                         valid |-> FALSE, failed |-> FALSE]]

SetSensor(r) ==
    /\ using_real_sensor' = r.using_real_sensor
    /\ sim_start' = r.sim_start
    /\ sample' = r.sample

\* SensorManager.read_attitude() called on its own
read_attitude(outcome, att, simatt) ==
    /\ op' = "read_attitude"
    /\ ret' = FALSE
    /\ raised' = FALSE
    /\ SetSensor(read_attitude_result(using_real_sensor, sim_start, outcome,
                                      att, simatt, now))
    /\ UNCHANGED <<now, relVars, emergency_override, rcVars, histVars, pidVars,
                   monoVars, pollVars, pc, system_active, loop_count,
                   last_telemetry_time, ctrl, ctrlDeinit, buttonVars>>

(***************************************************************************)
(* PlanadorSystem (main_modular.py): one tick of the control loop, and the *)
(* shutdown that follows the loop                                          *)
(***************************************************************************)
button_debounce == 300
telemetry_interval == 3000
telemetry_every == 30
main_loop_frequency == 50

\* calculate_servo_commands() calls calculate() with its default dt, 0.1 s
default_dt == 100

\* largest number of ticks explored
MaxLoops == 3

\* time.ticks_ms() when run() starts
StartTimes == {1000}

\* attitudes the sensors deliver to a tick
SysAttitudes == {<<0, 0, 0>>, <<50, 40, 30>>}

\* pulse widths the input pin presents to a tick
SysMeasurements == {1500, 1800}

\* what goes wrong in a tick: nothing, the LED update raises, the first write
\* to a control servo raises, every write to a control servo raises
Faults == {"none", "leds", "servo_once", "servo_stuck"}

\* the alert LED was initialised (LED_ALERT is configured)
AlertLed == TRUE

SystemInit ==
    /\ pc = "loop"
    /\ system_active = FALSE
    /\ loop_count = 0
    /\ last_telemetry_time = 0
    /\ ctrl = Neutral4
    /\ ctrlDeinit = FALSE
    /\ mode_button_last = FALSE
    /\ power_button_last = FALSE
    /\ last_button_time = 0

\* the objects a tick works on, as one record; exc: an exception is
\* propagating; calls: writes to the control servos made so far in the tick
Sys ==
    [rel |-> Rel, hist |-> Hist, active |-> system_active,
     integral |-> integral, prev_error |-> prev_error,
     flight_mode |-> flight_mode, pid_out |-> pid_out,
     commands |-> commands, ctrl |-> ctrl,
     mode_button_last |-> mode_button_last,
     power_button_last |-> power_button_last,
     last_button_time |-> last_button_time,
     last_telemetry_time |-> last_telemetry_time,
     mode |-> FALSE, power |-> FALSE, exc |-> FALSE, calls |-> 0]

\* ServoManager.angle_to_duty: the angle the duty stands for
angle_to_duty(angle) == Clamp(angle, servo_min_angle, servo_max_angle)

\* the writes servo.duty(...) of set_neutral() and apply_commands(); the
\* first write that raises leaves the servos where they were
servo_duty(c, angles, fault) ==
    IF fault = "servo_stuck" \/ (fault = "servo_once" /\ c.calls = 0)
    THEN [c EXCEPT !.exc = TRUE, !.calls = c.calls + 1]
    ELSE [c EXCEPT !.ctrl = [i \in 1..4 |-> angle_to_duty(angles[i])],
                   !.calls = c.calls + 1]

\* ServoManager.set_neutral()
set_neutral(c, fault) == servo_duty(c, Neutral4, fault)

\* ServoManager.apply_commands(commands)
apply_commands(c, angles, fault) == servo_duty(c, angles, fault)

\* ButtonManager.read_buttons(); mp, pp: the buttons are held down
read_buttons(c, mp, pp) ==
    IF ticks_diff(c.rel.now, c.last_button_time) < button_debounce
    THEN [c EXCEPT !.mode = FALSE, !.power = FALSE]
    ELSE LET mode_clicked == mp /\ ~c.mode_button_last
             power_clicked == pp /\ ~c.power_button_last
         IN [c EXCEPT !.mode = mode_clicked, !.power = power_clicked,
                      !.power_button_last = pp,
                      !.mode_button_last = mp,
                      !.last_button_time =
                          IF mode_clicked \/ power_clicked THEN c.rel.now
                          ELSE c.last_button_time]

\* _activate_system() without the call of pid_controller.reset()
activate_system_no_reset(c) == [c EXCEPT !.active = TRUE]

\* _activate_system()
activate_system(c) ==
    [c EXCEPT !.active = TRUE, !.integral = Zero3, !.prev_error = Zero3]

\* _switch_flight_mode() that stays in the last mode instead of wrapping
switch_flight_mode_stops(c) ==
    LET new_mode == IF c.flight_mode + 1 < NumModes THEN c.flight_mode + 1
                    ELSE c.flight_mode
    IN IF new_mode # c.flight_mode
       THEN [c EXCEPT !.flight_mode = new_mode, !.integral = Zero3,
                      !.prev_error = Zero3]
       ELSE c

\* _switch_flight_mode()
switch_flight_mode(c) ==
    LET new_mode == (c.flight_mode + 1) % NumModes
    IN IF new_mode # c.flight_mode
       THEN [c EXCEPT !.flight_mode = new_mode, !.integral = Zero3,
                      !.prev_error = Zero3]
       ELSE c

\* _deactivate_system()
deactivate_system(c, fault) ==
    LET c1 == set_neutral([c EXCEPT !.active = FALSE], fault)
    IN IF c1.exc THEN c1
       ELSE [c1 EXCEPT !.rel.now = c1.rel.now + alert_duration(3, AlertLed)]

\* _handle_controls() with the test of system_active at line 141 left out:
\* every power click releases
handle_controls_power_releases(c, mp, pp, fault) ==
    LET b == read_buttons(c, mp, pp)
        c1 == IF ~b.mode THEN b
              ELSE IF ~b.active THEN activate_system(b)
              ELSE switch_flight_mode(b)
    IN IF ~b.power THEN c1
       ELSE [c1 EXCEPT
               !.rel = emergency_release_result(c1.rel, AlertLed),
               !.hist = HistEmergency(c1.hist)]

\* _handle_controls()
handle_controls(c, mp, pp, fault) ==
    LET b == read_buttons(c, mp, pp)
        c1 == IF ~b.mode THEN b
              ELSE IF ~b.active THEN activate_system(b)
              ELSE switch_flight_mode(b)
    IN IF ~b.power THEN c1
       ELSE IF c1.active THEN deactivate_system(c1, fault)
       ELSE [c1 EXCEPT
               !.rel = emergency_release_result(c1.rel, AlertLed),
               !.hist = HistEmergency(c1.hist)]

\* int(x) replaced by the nearest integer, for x >= 0 in 1/100000
TruncNearest(x) == (x + 50000) \div 100000

\* int(x) for x in 1/100000: truncation towards zero
Trunc(x) == IF x >= 0 THEN x \div 100000 ELSE 0 - ((0 - x) \div 100000)

\* calculate_servo_commands, line 159, without the clamp
LimitCommandNone(cmd) == Trunc(cmd)

\* calculate_servo_commands, line 159: int(max(min_angle, min(max_angle, cmd)))
LimitCommand(cmd) ==
    Trunc(Clamp(cmd, servo_min_angle * 100000, servo_max_angle * 100000))

\* the mixer with the flap bias of line 150 left out
mix_no_bias(mode, out) ==
    LET base == servo_neutral_angle * 100000
        raw == <<base - out[1], base + out[1], base - out[2], base + out[3]>>
    IN [i \in 1..4 |-> LimitCommand(raw[i])]

\* calculate_servo_commands, lines 149-159: the four angles for the PID
\* outputs out (1/100000) in the given mode
mix(mode, out) ==
    LET base == servo_neutral_angle * 100000
        flaps == FLIGHT_MODES[mode].flaps * 100000
        raw == <<base + flaps - out[1], base + flaps + out[1],
                 base - out[2], base + out[3]>>
    IN [i \in 1..4 |-> LimitCommand(raw[i])]

\* calculate_servo_commands(roll, pitch, yaw_rate): the PID state after
\* calculate() and the four angles, clamped and truncated by int()
calculate_servo_commands(c, att) ==
    LET errs == Errors(c.flight_mode, att)
        int == Accumulate(c.integral, errs, default_dt)
        out == Outputs(c.flight_mode, errs, int,
                       Derivatives(errs, c.prev_error, default_dt))
        cmds == mix(c.flight_mode, out)
    IN [pid |-> [c EXCEPT !.integral = int, !.prev_error = errs,
                          !.pid_out = out, !.commands = cmds],
        commands |-> cmds]

\* PIDController.calculate_servo_commands(roll, pitch, yaw_rate) called on
\* its own
servo_commands(att) ==
    LET r == calculate_servo_commands(Sys, att)
    IN /\ op' = "calculate_servo_commands"
       /\ ret' = FALSE
       /\ raised' = FALSE
       /\ integral' = r.pid.integral
       /\ prev_error' = r.pid.prev_error
       /\ pid_out' = r.pid.pid_out
       /\ commands' = r.commands
       /\ UNCHANGED <<flight_mode, monoVars, pollVars, sysVars, now, relVars,
                      emergency_override, rcVars, histVars>>

\* PlanadorESP32.calculate_pid(): the outputs of lines 239-247, in 1/100000
MonoOutputs(int, att) ==
    [i \in 1..3 |->
        limit_output(STABILIZATION_GAINS[3 * i - 2] * (0 - att[i]) * 1000
                       + STABILIZATION_GAINS[3 * i - 1] * int[i],
                     STABILIZATION_LIMITS[i])]

\* PlanadorESP32.calculate_commands, lines 260-263: max(30, min(150, int(x)))
MonoLimitCommand(cmd) == Clamp(Trunc(cmd), servo_min_angle, servo_max_angle)

\* PlanadorESP32.calculate_commands, lines 253-263: the four commands for
\* the outputs out
MonoCommands(out) ==
    LET base == servo_neutral_angle * 100000
        raw == <<base - out[1], base + out[1], base - out[2], base + out[3]>>
    IN [i \in 1..4 |-> MonoLimitCommand(raw[i])]

\* PlanadorESP32.calculate_commands(roll, pitch, yaw_rate)
calculate_commands(att) ==
    LET int == MonoAccumulate(pid_integral, att)
        out == MonoOutputs(int, att)
    IN /\ op' = "calculate_commands"
       /\ ret' = FALSE
       /\ raised' = FALSE
       /\ pid_integral' = int
       /\ commands' = MonoCommands(out)
       /\ UNCHANGED <<firmware, esp32, simulator, presses, pollVars, integral,
                      prev_error,
                      flight_mode,
                      pid_out,
                      sysVars, now, relVars, emergency_override, rcVars,
                      histVars>>

(***************************************************************************)
(* PlanadorSimulator (simulator/planador_simulator.py), in the units of    *)
(* the firmware model, and the simulator run side by side with the         *)
(* monolithic firmware on the same inputs                                  *)
(***************************************************************************)
\* PlanadorSimulator.__init__: gains and limits, lines 138-139
sim_gains == <<200, 15, 100, 250, 18, 120, 120, 6, 50>>

sim_limits == <<25, 30, 18>>

SimulatorInit ==
    [pid_integral |-> Zero3, pid_out |-> Zero3,
     commands |-> <<90, 90, 90, 90>>]

\* the accumulation with a time step of 0.1 s in place of 0.02 s
sim_accumulate_loop_dt(int, att) ==
    [i \in 1..3 |->
        Clamp(int[i] + ((0 - att[i]) * 1000 * 100) \div 1000,
              0 - 10000, 10000)]

\* calculate_pid, lines 153-165: error * 0.02 added, clamped to [-10, 10]
sim_accumulate(int, att) ==
    [i \in 1..3 |->
        Clamp(int[i] + ((0 - att[i]) * 1000 * 20) \div 1000,
              0 - 10000, 10000)]

\* PlanadorSimulator.calculate_pid(roll, pitch, yaw_rate)
sim_calculate_pid(s, att) ==
    LET int == sim_accumulate(s.pid_integral, att)
        out == [i \in 1..3 |->
                   Clamp(sim_gains[3 * i - 2] * (0 - att[i]) * 1000
                           + sim_gains[3 * i - 1] * int[i],
                         0 - sim_limits[i] * 100000,
                         sim_limits[i] * 100000)]
    IN [s EXCEPT !.pid_integral = int, !.pid_out = out]

\* PlanadorSimulator.calculate_servo_commands(roll, pitch, yaw_rate)
sim_calculate_servo_commands(s, att) ==
    LET p == sim_calculate_pid(s, att)
        raw == <<90 * 100000 - p.pid_out[1], 90 * 100000 + p.pid_out[1],
                 90 * 100000 - p.pid_out[2], 90 * 100000 + p.pid_out[3]>>
    IN [p EXCEPT !.commands =
                    [i \in 1..4 |-> Clamp(Trunc(raw[i]), 30, 150)]]

\* calculate_pid(roll, pitch, yaw_rate) of the firmware and of the
\* simulator, on the same input
both_calculate_pid(att) ==
    /\ op' = "both_calculate_pid"
    /\ ret' = FALSE
    /\ raised' = FALSE
    /\ pid_integral' = MonoAccumulate(pid_integral, att)
    /\ simulator' = sim_calculate_pid(simulator, att)
    /\ UNCHANGED <<firmware, esp32, presses, pollVars, pidVars, sysVars, now, relVars,
                   emergency_override, rcVars, histVars>>

\* calculate_commands of the firmware and calculate_servo_commands of the
\* simulator, on the same input
both_calculate_commands(att) ==
    LET int == MonoAccumulate(pid_integral, att)
    IN /\ op' = "both_calculate_commands"
       /\ ret' = FALSE
       /\ raised' = FALSE
       /\ pid_integral' = int
       /\ commands' = MonoCommands(MonoOutputs(int, att))
       /\ simulator' = sim_calculate_servo_commands(simulator, att)
       /\ UNCHANGED <<firmware, esp32, presses, pollVars, integral, prev_error,
                      flight_mode, pid_out, sysVars, now, relVars,
                      emergency_override, rcVars, histVars>>

\* _main_loop(), line 113, with the test left out
stabilize_always(c) == TRUE

\* _main_loop(), line 113: if self.system_active
stabilize(c) == c.active

\* _main_loop(), lines 113-117
control_step(c, att, fault) ==
    IF c.exc THEN c
    ELSE IF stabilize(c)
    THEN LET r == calculate_servo_commands(c, att)
         IN apply_commands(r.pid, r.commands, fault)
    ELSE set_neutral(c, fault)

\* _main_loop(), line 119: release_system.update()
release_step(c, m) ==
    IF c.exc THEN c
    ELSE LET u == update_result(c.rel, m)
         IN [c EXCEPT !.rel = [u EXCEPT !.raised = FALSE],
                      !.hist = HistUpdate(c.hist, c.rel, u),
                      !.exc = u.raised]

\* _main_loop(), line 120: _update_leds()
led_step(c, fault) ==
    IF c.exc THEN c
    ELSE IF fault = "leds" THEN [c EXCEPT !.exc = TRUE]
    ELSE c

\* _log_telemetry(): a snapshot is due telemetry_interval after the last
\* one; it asks get_rc_signal() for the RC value, which is a call of
\* read_channel() on the pin (measurement m)
log_telemetry_result(c, m) ==
    IF ticks_diff(c.rel.now, c.last_telemetry_time) < telemetry_interval
    THEN c
    ELSE [c EXCEPT !.last_telemetry_time = c.rel.now,
                   !.rel.last_read_time =
                       read_channel(c.rel, m).last_read_time]

\* _main_loop(), lines 122-123: _log_telemetry() every 30th tick; it reads the
\* RC channel again through get_rc_signal()
telemetry_step(c, count, m) ==
    IF c.exc \/ count % telemetry_every # 0 THEN c
    ELSE log_telemetry_result(c, m)

\* PlanadorSystem._log_telemetry() called on its own
log_telemetry(m) ==
    LET c == log_telemetry_result(Sys, m)
    IN /\ op' = "log_telemetry"
       /\ ret' = FALSE
       /\ raised' = FALSE
       /\ last_telemetry_time' = c.last_telemetry_time
       /\ last_read_time' = c.rel.last_read_time
       /\ UNCHANGED <<now, relVars, emergency_override, rc_pin, rc_signal,
                      histVars, pidVars, monoVars, pollVars, pc,
                      system_active, loop_count, ctrl, ctrlDeinit,
                      buttonVars, sensorVars>>

\* the try block of _main_loop(), after read_attitude() returned att
try_block(c, count, att, mp, pp, m, fault) ==
    telemetry_step(
        led_step(
            release_step(
                control_step(handle_controls(c, mp, pp, fault), att, fault),
                m),
            fault),
        count, m)

\* the except block of _main_loop(): set_neutral(), outside any try
except_block(c, fault) == set_neutral([c EXCEPT !.exc = FALSE], fault)

SetSys(c) ==
    /\ SetHist(c.hist)
    /\ state' = c.rel.state
    /\ armed_time' = c.rel.armed_time
    /\ release_time' = c.rel.release_time
    /\ servo' = c.rel.servo
    /\ servoAngle' = c.rel.servoAngle
    /\ last_read_time' = c.rel.last_read_time
    /\ rc_signal' = c.rel.rc_signal
    /\ system_active' = c.active
    /\ integral' = c.integral
    /\ prev_error' = c.prev_error
    /\ flight_mode' = c.flight_mode
    /\ pid_out' = c.pid_out
    /\ commands' = c.commands
    /\ ctrl' = c.ctrl
    /\ mode_button_last' = c.mode_button_last
    /\ power_button_last' = c.power_button_last
    /\ last_button_time' = c.last_button_time
    /\ last_telemetry_time' = c.last_telemetry_time

\* run(), lines 91-93: one call of _main_loop() and the sleep that follows
\* it; an exception that leaves _main_loop() ends the loop (lines 96-100)
\* busy: the time the pass itself takes (ms)
main_loop_lasting(outcome, att, simatt, mp, pp, m, fault, busy) ==
    LET s == read_attitude_result(using_real_sensor, sim_start, outcome, att,
                                  simatt, now)
        t == try_block(Sys, loop_count + 1, s.sample.att, mp, pp, m, fault)
        e == IF t.exc THEN except_block(t, fault) ELSE t
    IN /\ pc = "loop"
       /\ SetSensor(s)
       /\ op' = "main_loop"
       /\ loop_count' = loop_count + 1
       /\ SetSys(e)
       /\ ret' = FALSE
       /\ raised' = t.exc
       /\ IF e.exc
          THEN pc' = "shutdown" /\ now' = e.rel.now
          ELSE pc' = "loop"
               /\ now' = e.rel.now + busy + 1000 \div main_loop_frequency
       /\ UNCHANGED <<emergency_override, rc_pin, monoVars, pollVars,
                      ctrlDeinit>>

\* a pass of the loop whose own work takes no time
main_loop(outcome, att, simatt, mp, pp, m, fault) ==
    main_loop_lasting(outcome, att, simatt, mp, pp, m, fault, 0)

\* run(), lines 94-95: Ctrl+C ends the loop
keyboard_interrupt ==
    /\ pc = "loop"
    /\ pc' = "shutdown"
    /\ op' = "keyboard_interrupt"
    /\ ret' = FALSE
    /\ raised' = FALSE
    /\ UNCHANGED <<now, relVars, emergency_override, rcVars, histVars,
                   pidVars, monoVars, pollVars, system_active, loop_count,
                   last_telemetry_time, ctrl, ctrlDeinit, buttonVars,
                   sensorVars>>

\* _shutdown(), lines 272-274: release_system.cleanup()
shutdown_release ==
    /\ pc = "shutdown"
    /\ pc' = "release_cleaned"
    /\ op' = "shutdown_release"
    /\ system_active' = FALSE
    /\ SetRel(cleanup_result(Rel))
    /\ UNCHANGED <<emergency_override, rc_pin, histVars, pidVars, monoVars, pollVars,
                   loop_count, last_telemetry_time, ctrl, ctrlDeinit,
                   buttonVars, sensorVars>>

\* _shutdown(), lines 275-276: hardware.cleanup(); ServoManager.cleanup()
\* commands neutral and then releases the handles, and an exception from
\* set_neutral() is caught by HardwareManager.cleanup()
shutdown_hardware(fault) ==
    LET c == set_neutral(Sys, fault)
    IN /\ pc = "release_cleaned"
       /\ pc' = "hardware_cleaned"
       /\ op' = "shutdown_hardware"
       /\ ret' = FALSE
       /\ raised' = FALSE
       /\ ctrl' = c.ctrl
       /\ ctrlDeinit' = ~c.exc
       /\ UNCHANGED <<now, relVars, emergency_override, rcVars, histVars,
                      pidVars, monoVars, pollVars, system_active, loop_count,
                      last_telemetry_time, buttonVars, sensorVars>>

\* _shutdown(), lines 277-278: pid_controller.emergency_stop()
shutdown_pid ==
    /\ pc = "hardware_cleaned"
    /\ pc' = "stopped"
    /\ op' = "shutdown_pid"
    /\ ret' = FALSE
    /\ raised' = FALSE
    /\ integral' = Zero3
    /\ prev_error' = Zero3
    /\ UNCHANGED <<now, relVars, emergency_override, rcVars, histVars,
                   flight_mode, pid_out, commands, monoVars, pollVars, system_active,
                   loop_count,
                   last_telemetry_time, ctrl, ctrlDeinit, buttonVars,
                   sensorVars>>

\* the state after construction; the configuration and the program that
\* runs are fixed by each specification
InitBase ==
    /\ rc_pc = "idle"
    /\ esp32 = ESP32Init
    /\ simulator = SimulatorInit
    /\ presses = [calls |-> 0,
                  mode |-> [down |-> FALSE, calls |-> 0, clicks |-> 0],
                  power |-> [down |-> FALSE, calls |-> 0, clicks |-> 0]]
    /\ timeout = 0
    /\ ReleaseInit
    /\ PIDInit
    /\ SystemInit
    /\ last_read_time = 0
    /\ op = "init"
    /\ rc_signal = rc_neutral_pulse
    /\ raised = FALSE
    /\ quiet = TRUE
    /\ sustained = FALSE
    /\ noneBelow = FALSE

Init ==
    /\ InitBase
    /\ SensorInit(TRUE)
    /\ now = 0
    /\ ret = FALSE
    /\ poll_us = 1
    /\ firmware = "modular"
    /\ emergency_override \in BOOLEAN
    /\ rc_pin \in BOOLEAN

Update == \E m \in Measurements : now <= MaxTime /\ update(m)
Lock == now <= MaxTime /\ lock
ForceLock == now <= MaxTime /\ force_lock
EmergencyRelease == \E l \in BOOLEAN : now <= MaxTime /\ emergency_release(l)
Cleanup == now <= MaxTime /\ cleanup
Tick == \E d \in Deltas : Advance(d)

Next == Update \/ Lock \/ ForceLock \/ EmergencyRelease \/ Cleanup \/ Tick

Spec == Init /\ [][Next]_vars

InitPID ==
    /\ InitBase
    /\ SensorInit(TRUE)
    /\ now = 0
    /\ ret = FALSE
    /\ poll_us = 1
    /\ firmware \in {"modular", "monolithic"}
    /\ emergency_override = TRUE
    /\ rc_pin = TRUE

Calculate ==
    \E a \in Attitudes, dt \in Dts : firmware = "modular" /\ calculate(a, dt)
Reset == firmware = "modular" /\ reset
SetFlightMode ==
    \E i \in ModeArgs : firmware = "modular" /\ set_flight_mode(i)
CalculatePid ==
    \E a \in Attitudes : firmware = "monolithic" /\ calculate_pid(a)

CalculateServoCommands ==
    \E a \in Attitudes : firmware = "modular" /\ servo_commands(a)
CalculateCommands ==
    \E a \in Attitudes : firmware = "monolithic" /\ calculate_commands(a)

NextPID == Calculate \/ Reset \/ SetFlightMode \/ CalculatePid

SpecPID == InitPID /\ [][NextPID]_vars

\* the command calculation of either program, with the mode switches and
\* resets of the modular one
NextCommands ==
    CalculateServoCommands \/ CalculateCommands \/ SetFlightMode \/ Reset

SpecCommands == InitPID /\ [][NextCommands]_vars

InitRC ==
    /\ InitBase
    /\ SensorInit(TRUE)
    /\ now = 0
    /\ ret = NoValue
    /\ poll_us \in PollCosts
    /\ firmware \in {"modular", "monolithic"}
    /\ emergency_override = TRUE
    /\ rc_pin \in BOOLEAN

ReadChannelBegin == firmware = "modular" /\ read_channel_begin
ReadChannelWaitHigh == \E v \in PinValues : read_channel_wait_high(v)
ReadChannelWaitLow == \E v \in PinValues : read_channel_wait_low(v)
ReadRcSignalBegin ==
    \E v \in PinValues : firmware = "monolithic" /\ read_rc_signal_begin(v)
ReadRcSignalWaitLow == \E v \in PinValues : read_rc_signal_wait_low(v)
RCTick == \E d \in RCDeltas : rc_pc = "idle" /\ Advance(d)

Poll == ReadChannelWaitHigh \/ ReadChannelWaitLow \/ ReadRcSignalWaitLow

NextRC == ReadChannelBegin \/ ReadRcSignalBegin \/ Poll \/ RCTick

\* a read that was started goes on polling
SpecRC == InitRC /\ [][NextRC]_vars /\ WF_vars(Poll)

InitSensor ==
    /\ InitBase
    /\ \E probe \in BOOLEAN : SensorInit(probe)
    /\ now = 0
    /\ ret = FALSE
    /\ poll_us = 1
    /\ firmware = "modular"
    /\ emergency_override = TRUE
    /\ rc_pin = TRUE

ReadAttitude ==
    \E o \in SensorOutcomes, a \in Attitudes, b \in SimAttitudes :
        read_attitude(o, a, b)

NextSensor == ReadAttitude \/ Tick

SpecSensor == InitSensor /\ [][NextSensor]_vars

\* C10: after every PID update, whatever the inputs and the resets and mode
\* switches before it, each integral accumulator of the modular and of the
\* monolithic controller lies within [-max_pid_integral, max_pid_integral].
C10_IntegralBounded ==
    \A i \in 1..3 :
        /\ integral[i] >= 0 - max_pid_integral * 1000
        /\ integral[i] <= max_pid_integral * 1000
        /\ pid_integral[i] >= 0 - max_pid_integral * 1000
        /\ pid_integral[i] <= max_pid_integral * 1000

\* C10 witness: both controllers saturated, at opposite ends on one axis,
\* after a mode switch.
C10_Witness ==
    /\ \/ /\ op = "calculate"
          /\ flight_mode # 0
          /\ integral[1] = max_pid_integral * 1000
          /\ integral[2] = 0 - max_pid_integral * 1000
       \/ /\ op = "calculate_pid"
          /\ pid_integral[1] = max_pid_integral * 1000
          /\ pid_integral[2] = 0 - max_pid_integral * 1000

InitSystem ==
    /\ InitBase
    /\ SensorInit(TRUE)
    /\ ret = FALSE
    /\ poll_us = 1
    /\ now \in StartTimes
    /\ firmware = "modular"
    /\ emergency_override = TRUE
    /\ rc_pin = TRUE

MainLoop ==
    \E outcome \in SensorOutcomes, att \in SysAttitudes,
       simatt \in SimAttitudes, mp \in BOOLEAN, pp \in BOOLEAN,
       m \in SysMeasurements, fault \in Faults :
        loop_count < MaxLoops
            /\ main_loop(outcome, att, simatt, mp, pp, m, fault)
KeyboardInterrupt == keyboard_interrupt
ShutdownRelease == shutdown_release
ShutdownHardware ==
    \E fault \in {"none", "servo_stuck"} : shutdown_hardware(fault)
ShutdownPid == shutdown_pid

NextSystem ==
    MainLoop \/ KeyboardInterrupt \/ ShutdownRelease \/ ShutdownHardware
        \/ ShutdownPid

SpecSystem == InitSystem /\ [][NextSystem]_vars

\* time a pass of _main_loop() may take (ms): none, or a stall as long as
\* safety_delay
LoopCosts == {0, 2000}

\* a pass in flight: the real sensor answers, the power button is left
\* alone and no hardware write fails
flight_loop(att, mp, m, busy) ==
    \E simatt \in SimAttitudes :
        main_loop_lasting("data", att, simatt, mp, FALSE, m, "none", busy)

FlightLoop ==
    \E att \in SysAttitudes, mp \in BOOLEAN, m \in SysMeasurements,
       busy \in LoopCosts :
        loop_count < MaxLoops /\ flight_loop(att, mp, m, busy)

NextFlight == FlightLoop

SpecFlight == InitSystem /\ [][NextFlight]_vars

\* time a pass may take when the buttons are worked (ms): none, or as long
\* as button_debounce
ButtonGaps == {0, 300}

\* the attitude the sensor delivers while the buttons are worked
ControlAttitudes == {<<50, 40, 30>>}

\* a pass in which the pilot works the two buttons: the real sensor
\* answers and no hardware write fails
controls_loop(att, mp, pp, m, busy) ==
    \E simatt \in SimAttitudes :
        main_loop_lasting("data", att, simatt, mp, pp, m, "none", busy)

ControlsLoop ==
    \E att \in ControlAttitudes, mp \in BOOLEAN, pp \in BOOLEAN,
       m \in SysMeasurements, busy \in ButtonGaps :
        loop_count < MaxLoops /\ controls_loop(att, mp, pp, m, busy)

NextControls == ControlsLoop

SpecControls == InitSystem /\ [][NextControls]_vars

\* largest number of passes explored when only the mode button is worked
MaxModeLoops == 8

\* a pass in which only the mode button is worked, with a neutral RC input;
\* the pass takes as long as button_debounce
mode_loop(mp) ==
    \E att \in ControlAttitudes, simatt \in SimAttitudes :
        main_loop_lasting("data", att, simatt, mp, FALSE, rc_neutral_pulse,
                          "none", button_debounce)

ModeLoop == \E mp \in BOOLEAN : loop_count < MaxModeLoops /\ mode_loop(mp)

NextModes == ModeLoop

SpecModes == InitSystem /\ [][NextModes]_vars

LogTelemetry == \E m \in Measurements : now <= MaxTime /\ log_telemetry(m)

NextTelemetry == Update \/ LogTelemetry \/ Tick

SpecTelemetry == Init /\ [][NextTelemetry]_vars

InitBoth ==
    /\ InitBase
    /\ SensorInit(TRUE)
    /\ now = 0
    /\ ret = FALSE
    /\ poll_us = 1
    /\ firmware = "modular"
    /\ emergency_override = TRUE
    /\ rc_pin = TRUE

BothUpdate == \E d \in Deltas, m \in PulseWidths : both_update(d, m)

NextBoth == BothUpdate

SpecBoth == InitBoth /\ [][NextBoth]_vars

BothCalculatePid == \E a \in Attitudes : both_calculate_pid(a)

BothCalculateCommands == \E a \in Attitudes : both_calculate_commands(a)

NextSimulator == BothCalculatePid \/ BothCalculateCommands

SpecSimulator == InitPID /\ [][NextSimulator]_vars

\* C8: an exception raised by a step inside a tick of _main_loop() is caught
\* in that tick and answered by commanding the four control servos to
\* neutral, and the loop goes on: no such error ends the loop.
C8_TickErrorContained ==
    (op = "main_loop" /\ raised) => (pc = "loop" /\ ctrl = Neutral4)

\* C9: during shutdown no servo handle is released before the release
\* mechanism is LOCKED with its servo at locked_position and the four control
\* servos have been commanded to neutral.
C9_SafeBeforeHandlesReleased ==
    (~servo \/ ctrlDeinit) =>
        /\ state = "LOCKED"
        /\ servoAngle = locked_position
        /\ ctrl = Neutral4

(***************************************************************************)
(* Properties of the release state machine                                 *)
(***************************************************************************)
UpdateStep == op' = "update"

\* C1: every state change made by update() is one of the five edges of the
\* transition table, taken only under its guard (rc and time as update()
\* observed them).
C1_UpdateFollowsTable ==
    [][(UpdateStep /\ state' # state) =>
        \/ /\ state = "LOCKED" /\ state' = "ARMED"
           /\ rc_signal' > rc_threshold
        \/ /\ state = "ARMED" /\ state' = "LOCKED"
           /\ rc_signal' < rc_threshold
        \/ /\ state = "ARMED" /\ state' = "RELEASING"
           /\ ticks_diff(now, armed_time) >= safety_delay
           /\ rc_signal' > rc_threshold
        \/ /\ state = "RELEASING" /\ state' = "RELEASED"
           /\ ticks_diff(now, release_time) >= release_duration
        \/ /\ state = "RELEASED" /\ state' = "LOCKED"
           /\ ticks_diff(now, release_time) >= auto_lock_time]_vars

\* C1 witness: update() has taken the ARMED -> RELEASING edge.
C1_Witness ==
    /\ op = "update"
    /\ state = "RELEASING"
    /\ release_time = now
    /\ rc_signal > rc_threshold

\* C2 as stated: update() enters RELEASING only from ARMED, after at least
\* safety_delay ms, and only if every rc it saw since arming was strictly
\* above the threshold.
C2_StrictlyAboveAllWindow ==
    [][(UpdateStep /\ state' = "RELEASING" /\ state # "RELEASING") =>
        /\ state = "ARMED"
        /\ ticks_diff(now, armed_time) >= safety_delay
        /\ sustained']_vars

\* C2 amended: update() enters RELEASING only from ARMED, after at least
\* safety_delay ms, with the releasing sample strictly above the threshold
\* and no sample since arming strictly below it; a sample below the threshold
\* disarms, so the delay starts again at the next arming.
C2_NoSampleBelowInWindow ==
    [][/\ (UpdateStep /\ state' = "RELEASING" /\ state # "RELEASING") =>
            /\ state = "ARMED"
            /\ ticks_diff(now, armed_time) >= safety_delay
            /\ rc_signal' > rc_threshold
            /\ noneBelow'
       /\ (UpdateStep /\ state = "ARMED" /\ rc_signal' < rc_threshold) =>
            state' = "LOCKED"
       /\ (UpdateStep /\ state = "LOCKED" /\ state' = "ARMED") =>
            armed_time' = now]_vars

\* C2 witness: a release after a window that held a sample equal to the
\* threshold.
C2_Witness ==
    /\ op = "update"
    /\ state = "RELEASING"
    /\ release_time = now
    /\ noneBelow
    /\ ~sustained

\* C3: with the override enabled and the servo available, emergency_release()
\* returns True with state RELEASED, the servo at release_position and
\* release_time the time of the call, from every state and in one step.
C3_EmergencyReachesReleased ==
    [][(op' = "emergency_release" /\ emergency_override /\ servo) =>
        /\ ret' = TRUE
        /\ state' = "RELEASED"
        /\ servoAngle' = release_position
        /\ release_time' = now]_vars

\* C3 witness: an emergency release made while ARMED, before the delay ran out.
C3_Witness ==
    /\ op = "emergency_release"
    /\ ret = TRUE
    /\ state = "RELEASED"
    /\ armed_time > 0
    /\ ticks_diff(release_time, armed_time) < safety_delay
    /\ now > release_time

\* C4: with rc above the threshold at every update(), LOCKED arms, ARMED
\* starts the release (servo 45 -> 135) at the first update at least
\* safety_delay after arming, and RELEASING becomes RELEASED at the first
\* update at least 500 ms after the release started.
C4_SustainedSignalReleases ==
    [][(UpdateStep /\ servo /\ rc_signal' > rc_threshold) =>
        /\ state = "LOCKED" => state' = "ARMED"
        /\ (state = "ARMED" /\ ticks_diff(now, armed_time) >= safety_delay) =>
              (state' = "RELEASING" /\ servoAngle = locked_position
                 /\ servoAngle' = release_position)
        /\ (state = "ARMED" /\ ticks_diff(now, armed_time) < safety_delay) =>
              state' = "ARMED"
        /\ (state = "RELEASING"
              /\ ticks_diff(now, release_time) >= release_duration) =>
              state' = "RELEASED"]_vars

\* C5: in RELEASED, update() locks again (servo to locked_position) at the
\* first call with now - release_time >= auto_lock_time and leaves the state
\* RELEASED on every earlier call.
C5_AutoLockAfterDelay ==
    [][(UpdateStep /\ servo /\ state = "RELEASED") =>
        IF ticks_diff(now, release_time) >= auto_lock_time
        THEN state' = "LOCKED" /\ servoAngle' = locked_position
        ELSE state' = "RELEASED"]_vars

\* C6: the system starts LOCKED at locked_position and, while every rc seen by
\* update() is below the threshold and emergency_release() is never called,
\* it is LOCKED with the servo at locked_position.
C6_StaysLockedBelowThreshold ==
    quiet => (state = "LOCKED" /\ servoAngle = locked_position)

\* C6 witness: a fresh reading below the threshold, well after start.
C6_Witness ==
    /\ quiet
    /\ op = "update"
    /\ last_read_time >= safety_delay
    /\ rc_signal < rc_threshold
    /\ state = "LOCKED"

\* C7: with the servo available, the angle last commanded to the release servo
\* is locked_position in LOCKED and ARMED and release_position in RELEASING
\* and RELEASED.
C7_ServoFollowsState ==
    servo =>
        /\ state \in {"LOCKED", "ARMED"} => servoAngle = locked_position
        /\ state \in {"RELEASING", "RELEASED"} => servoAngle = release_position

\* C7 witness: locked again by lock() after a release.
C7_Witness ==
    /\ servo
    /\ op \in {"lock", "force_lock"}
    /\ release_time > 0
    /\ state = "LOCKED"
    /\ servoAngle = locked_position


C12_SetModeResets ==
    (op = "set_flight_mode" /\ ret) =>
        /\ flight_mode \in DOMAIN FLIGHT_MODES
        /\ integral = Zero3
        /\ prev_error = Zero3

\* C13: a read_channel() made less than rc_read_interval ms after the
\* previous fresh measurement returns what that measurement returned.  A
\* value other than the neutral pulse handed to the last update() can only
\* come from a fresh measurement, so the next update() inside the interval
\* must see the same value.
C13_RateLimitedReturnsCached ==
    [][(/\ UpdateStep
        /\ op = "update"
        /\ servo
        /\ rc_pin
        /\ rc_signal # rc_neutral_pulse
        /\ ticks_diff(now, last_read_time) < rc_read_interval) =>
            rc_signal' = rc_signal]_vars


RCReturns == {"rc_skipped", "rc_no_edge", "rc_error", "rc_measured"}

\* C14: every value the RC decoder returns is a measured width within
\* [rc_min_pulse, rc_max_pulse] or exactly rc_neutral_pulse; a missing pin, a
\* call inside the read interval, no rising edge, an exception and a measured
\* width outside the range all yield rc_neutral_pulse.
C14_DecoderRange ==
    /\ op \in RCReturns =>
         (ret = rc_neutral_pulse
            \/ (op = "rc_measured" /\ ret = timeout * poll_us /\ InRange(ret)))
    /\ op \in {"rc_skipped", "rc_no_edge", "rc_error"} =>
         ret = rc_neutral_pulse
    /\ (op = "rc_measured" /\ ~InRange(timeout * poll_us)) =>
         ret = rc_neutral_pulse

\* C14 witness: read_channel() measured 3000 us and returned the neutral
\* pulse.
C14_Witness ==
    /\ firmware = "modular"
    /\ op = "rc_measured"
    /\ timeout * poll_us = 3000
    /\ ret = rc_neutral_pulse

\* C15: read_channel() terminates whatever the pin does: the loop that waits
\* for the rising edge runs at most sensor_timeout + 1 times and then the
\* call returns rc_neutral_pulse, the loop that measures runs at most
\* rc_timeout + 1 times and then the call returns a value, and every read
\* that was started returns.
C15_ReadTerminates ==
    /\ [](/\ rc_pc = "wait_high" => timeout <= sensor_timeout + 1
          /\ rc_pc = "wait_low" => timeout <= rc_timeout + 1
          /\ op = "rc_no_edge" => ret = rc_neutral_pulse
          /\ (op = "rc_measured" /\ timeout > rc_timeout) => InRange(ret))
    /\ (rc_pc # "idle") ~> (rc_pc = "idle")

\* C15 witness: the pin never went high, and read_channel() returned the
\* neutral pulse after sensor_timeout + 1 iterations.
C15_Witness ==
    /\ firmware = "modular"
    /\ rc_pc = "idle"
    /\ op = "rc_no_edge"
    /\ timeout = sensor_timeout + 1
    /\ ret = rc_neutral_pulse


\* C19: calculate(attitude, dt) with dt # 0 returns, for every axis i,
\* clamp(Kp_i*e_i + Ki_i*I_i + Kd_i*d_i, -limit_i, +limit_i), where e is
\* (target.roll - roll, target.pitch - pitch, -yaw_rate), I_i the integral
\* after adding e_i*dt and clamping, d_i = (e_i - prev_error_i)/dt; afterwards
\* prev_error = e, and every output lies within the mode's axis limit.
C19_OutputFormula ==
    [][(op' = "calculate" /\ ~raised') =>
        \E att \in Attitudes, dt \in Dts \ {0} :
            LET md == FLIGHT_MODES[flight_mode]
                e == <<(md.target[1] - att[1]) * 1000,
                       (md.target[2] - att[2]) * 1000,
                       (0 - att[3]) * 1000>>
                I(i) == Clamp(integral[i] + (e[i] * dt) \div 1000,
                              0 - max_pid_integral * 1000,
                              max_pid_integral * 1000)
                d(i) == ((e[i] - prev_error[i]) * 1000) \div dt
                lim(i) == md.limits[i] * 100000
            IN /\ prev_error' = e
               /\ \A i \in 1..3 :
                    /\ integral'[i] = I(i)
                    /\ pid_out'[i] =
                         Clamp(md.gains[3 * i - 2] * e[i]
                                 + md.gains[3 * i - 1] * I(i)
                                 + md.gains[3 * i] * d(i),
                               0 - lim(i), lim(i))
                    /\ 0 - lim(i) <= pid_out'[i]
                    /\ pid_out'[i] <= lim(i)]_vars

\* C19 witness: in the last mode a pitch output inside the limit (the error
\* did not change, so the derivative is 0) next to a roll output of 0.
C19_Witness ==
    /\ op = "calculate"
    /\ ~raised
    /\ flight_mode = 2
    /\ prev_error[2] = 5000
    /\ integral[2] > 0
    /\ pid_out[2] = 250 * 5000 + 18 * integral[2]
    /\ pid_out[2] < 30 * 100000

\* C20: calculate() called with dt = 0 does not fail; only a call with
\* dt = 0 can raise, so no calculate() ends with an exception.
C20_ZeroDtHandled ==
    op = "calculate" => ~raised

(***************************************************************************)
(* Properties of the sensor manager                                        *)
(***************************************************************************)
\* C16: the fallback is sticky: using_real_sensor never goes from False back
\* to True, and once read_attitude() has reported a sample with is_valid =
\* False, or the probe at construction has failed, every later
\* read_attitude() reports is_valid = False.
C16_StickyFallback ==
    [][/\ ~using_real_sensor => ~using_real_sensor'
       /\ (op' = "read_attitude" /\ ~using_real_sensor) => ~sample'.valid
       /\ (op' = "read_attitude" /\ sample.src # "none" /\ ~sample.valid) =>
            ~sample'.valid]_vars

\* C16 witness: a read of the simulated source, some time after a real read
\* failed while the program ran.
C16_Witness ==
    /\ op = "read_attitude"
    /\ sim_start > 0
    /\ sample.src = "sim"
    /\ sample.t > 0
    /\ ~sample.failed
    /\ ~sample.valid
    /\ ~using_real_sensor

\* C17: read_attitude() never raises and returns a sample for every outcome of
\* the sensor read; when the real sensor failed on that call the sample
\* carries the simulated source's values with is_valid = False.
C17_ReadNeverRaises ==
    op = "read_attitude" =>
        /\ ~raised
        /\ sample.src \in {"real", "sim", "zero"}
        /\ sample.valid = (sample.src = "real")
        /\ sample.failed => (sample.src = "sim" /\ ~sample.valid)

\* C17 witness: the real sensor's read raised on this call and the sample of
\* the simulated source, started at this call, was returned.
C17_Witness ==
    /\ op = "read_attitude"
    /\ now > 0
    /\ sample.failed
    /\ sample.src = "sim"
    /\ sim_start = now
    /\ ~sample.valid


(***************************************************************************)
(* Properties of the control loop                                          *)
(***************************************************************************)
\* C18: in a tick of _main_loop() that raises no error, the last command the
\* control servos got is, if stabilization is active after the controls were
\* handled, the mixer output for the PID outputs computed from this tick's
\* attitude sample, and the neutral angle on all four servos if it is not.
C18_LastCommandFollowsActive ==
    [][(op' = "main_loop" /\ ~raised') =>
        IF system_active'
        THEN /\ ctrl' = commands'
             /\ commands' = mix(flight_mode', pid_out')
             /\ prev_error' = Errors(flight_mode', sample'.att)
        ELSE ctrl' = Neutral4]_vars

\* C18 witness: an active tick on a sample of the real sensor that moved the
\* servos away from neutral.
C18_Witness ==
    /\ op = "main_loop"
    /\ ~raised
    /\ system_active
    /\ sample.src = "real"
    /\ sample.att # Zero3
    /\ ctrl = commands
    /\ ctrl # Neutral4

\* the control servo commands the same pass leaves when the RC input has
\* been neutral throughout, so that the release mechanism is LOCKED
QuietRunCtrl(att, mp) ==
    LET c == [Sys EXCEPT !.rel.state = "LOCKED",
                         !.rel.servoAngle = locked_position]
        t == try_block(c, loop_count + 1, att, mp, FALSE, rc_neutral_pulse,
                       "none")
    IN IF t.exc THEN except_block(t, "none").ctrl ELSE t.ctrl

\* C27: the stabilization output does not depend on the release path: a
\* pass of the loop gives the control servos the commands that the same
\* pass, with the same attitude sample, buttons, PID and active state, gives
\* in the run whose RC input is neutral.
C27_ControlIgnoresRC ==
    [][\A att \in SysAttitudes, mp \in BOOLEAN, m \in SysMeasurements,
          busy \in LoopCosts :
          flight_loop(att, mp, m, busy) => ctrl' = QuietRunCtrl(att, mp)]_vars

\* C28: emitting a telemetry snapshot changes no state other than
\* last_telemetry_time: neither the release state, nor
\* RCReceiver.last_read_time, nor the value the next update() obtains from
\* read_channel, whatever the pin presents.
C28_TelemetryFrame ==
    [][op' = "log_telemetry" =>
        /\ UNCHANGED <<relVars, rc_signal, histVars, pidVars, system_active,
                       ctrl, buttonVars>>
        /\ last_read_time' = last_read_time
        /\ \A m \in Measurements :
              read_channel([Rel EXCEPT !.last_read_time = last_read_time'],
                           m).value
                = read_channel(Rel, m).value]_vars

\* C29: the modular and the monolithic release state machines, both
\* started in LOCKED and given the same (time, rc) samples, are in the same
\* release state and have commanded the same release-servo angle after each
\* call.
C29_ReleaseMachinesAgree ==
    /\ state = esp32.release_state
    /\ servoAngle = esp32.release_angle

\* C30: for every sequence of (roll, pitch, yaw_rate) inputs applied from
\* zeroed integrals, PlanadorSimulator.calculate_pid and
\* calculate_servo_commands return the same outputs and leave the same
\* integrals as PlanadorESP32.calculate_pid and calculate_commands.
C30_SimulatorMatchesFirmware ==
    [][\A att \in Attitudes :
          /\ both_calculate_pid(att) =>
                /\ simulator'.pid_integral = pid_integral'
                /\ simulator'.pid_out = MonoOutputs(pid_integral', att)
          /\ both_calculate_commands(att) =>
                /\ simulator'.pid_integral = pid_integral'
                /\ simulator'.pid_out = MonoOutputs(pid_integral', att)
                /\ simulator'.commands = commands']_vars

\* C30 witness: after several inputs both hold the same integrals, not
\* zero, and the same commands, with a yaw output that is neither zero nor
\* at its limit
C30_Witness ==
    /\ op = "both_calculate_commands"
    /\ pid_integral # Zero3
    /\ simulator.pid_integral = pid_integral
    /\ simulator.commands = commands
    /\ simulator.pid_out[3] = 0 - 3600
    /\ commands[4] = 89

(***************************************************************************)
(* Properties of the command mixer, continued                              *)
(***************************************************************************)

\* the four mixer sums of calculate_servo_commands (lines 152-155) for the
\* outputs out and the flap bias of the mode, in 1/100000, clamped to the
\* servo range
ClampedSums(bias, out) ==
    LET base == servo_neutral_angle * 100000
        raw == <<base + bias * 100000 - out[1], base + bias * 100000 + out[1],
                 base - out[2], base + out[3]>>
    IN [i \in 1..4 |-> IF raw[i] < servo_min_angle * 100000
                       THEN servo_min_angle * 100000
                       ELSE IF raw[i] > servo_max_angle * 100000
                            THEN servo_max_angle * 100000
                            ELSE raw[i]]

\* the outputs PlanadorESP32.calculate_pid returns for the attitude att when
\* the integrals after the accumulation are int
MonoOut(int, att) ==
    [i \in 1..3 |->
        LET o == STABILIZATION_GAINS[3 * i - 2] * (0 - att[i]) * 1000
                   + STABILIZATION_GAINS[3 * i - 1] * int[i]
            l == STABILIZATION_LIMITS[i] * 100000
        IN IF o > l THEN l ELSE IF o < 0 - l THEN 0 - l ELSE o]

\* the sums the mixer call of this step has clamped: those of the mode's
\* bias and pid_out' in the modular firmware, those of bias 0 and the
\* outputs of calculate_pid in the monolithic one
MixerStep(P(_, _)) ==
    /\ op' = "calculate_servo_commands" =>
         LET v == ClampedSums(FLIGHT_MODES[flight_mode].flaps, pid_out')
         IN \A i \in 1..4 : P(commands'[i], v[i])
    /\ op' = "calculate_commands" =>
         \E att \in Attitudes :
            LET v == ClampedSums(0, MonoOut(pid_integral', att))
            IN /\ \A i \in 1..3 :
                    \/ pid_integral'[i] = pid_integral[i] - att[i] * 20
                    \/ pid_integral'[i] \in {0 - 10000, 10000}
               /\ \A i \in 1..4 : P(commands'[i], v[i])

\* n is v (1/100000, not negative) with its fraction dropped
IsTruncated(n, v) == n * 100000 <= v /\ v < (n + 1) * 100000

\* n is an integer nearest to v (1/100000)
IsNearest(n, v) ==
    /\ 2 * (n * 100000 - v) <= 100000
    /\ 2 * (v - n * 100000) <= 100000

\* C21 as stated: the mixer returns flapsLeft = neutral + flapsBias - rollOut,
\* flapsRight = neutral + flapsBias + rollOut, elevator = neutral - pitchOut,
\* rudder = neutral + yawOut, each rounded to the nearest integer degree and
\* clamped to [servo_min_angle, servo_max_angle].
C21_MixerRoundsNearest == [][MixerStep(IsNearest)]_vars

\* C21 amended: the mixer returns the same four sums clamped to
\* [servo_min_angle, servo_max_angle] with the fraction dropped (int()
\* truncates towards zero), in both firmwares.
C21_MixerTruncates == [][MixerStep(IsTruncated)]_vars

\* C21 witness: a mixer call in a mode with flap bias 10 whose rudder sum
\* 89.82 has a fraction above one half, and whose flap sums 100.75 and 99.25
\* are inside the servo range
C21_Witness ==
    /\ op = "calculate_servo_commands"
    /\ flight_mode = 1
    /\ pid_out[3] = 0 - 18000
    /\ commands[4] = 89
    /\ pid_out[1] = 0 - 75000
    /\ commands[1] = 100
    /\ commands[2] = 99

C23_LockLocks ==
    [][(op' \in {"lock", "force_lock"} /\ servo)
        => (state' = "LOCKED" /\ servoAngle' = locked_position)]_vars

\* C23 witness: lock() has returned with the mechanism LOCKED after a
\* release had happened (release_time is set by a release only)
C23_Witness ==
    /\ op = "lock"
    /\ servo
    /\ release_time > 0
    /\ state = "LOCKED"
    /\ servoAngle = locked_position

\* C25: emergency_release() returns False and changes neither state,
\* release_time nor the servo command when emergency_override is disabled
\* or the servo is unavailable; it returns True only when it has forced
\* RELEASED with the servo at release_position.
C25_EmergencyRefusal ==
    [][op' = "emergency_release" =>
        /\ ret' \in BOOLEAN
        /\ (~emergency_override \/ ~servo) =>
              /\ ret' = FALSE
              /\ state' = state
              /\ release_time' = release_time
              /\ servoAngle' = servoAngle
              /\ servo' = servo
        /\ (ret' = TRUE) =>
              /\ emergency_override /\ servo
              /\ state' = "RELEASED"
              /\ servoAngle' = release_position
              /\ release_time' = now]_vars

\* C25 witness: a call refused in ARMED because the override is disabled
C25_Witness ==
    /\ op = "emergency_release"
    /\ ret = FALSE
    /\ ~emergency_override
    /\ servo
    /\ state = "ARMED"
    /\ servoAngle = locked_position

\* C26: while the RC input carries a valid pulse wider than rc_threshold,
\* no update() takes ARMED back to LOCKED, whatever the spacing of the
\* calls of read_channel: an update() whose pin carries such a pulse hands
\* the state machine a value that is not below the threshold.
C26_ArmedSurvivesValidSignal ==
    [][\A m \in Measurements \ {NoPulse} :
          (/\ InRange(m)
           /\ m > rc_threshold
           /\ rc_pin
           /\ servo
           /\ state = "ARMED"
           /\ update(m))
          => (rc_signal' >= rc_threshold /\ state' # "LOCKED")]_vars

(***************************************************************************)
(* Properties of the PID controller, continued                             *)
(***************************************************************************)

\* C24: set_flight_mode(i) returns True exactly when 0 <= i <
\* len(FLIGHT_MODES); when it returns False, flight_mode, integral and
\* prev_error are unchanged.
C24_SetModeResult ==
    [][\A i \in ModeArgs :
          set_flight_mode(i) =>
              /\ ret' = (0 <= i /\ i < NumModes)
              /\ ret' \in BOOLEAN
              /\ (ret' = FALSE) =>
                   /\ flight_mode' = flight_mode
                   /\ integral' = integral
                   /\ prev_error' = prev_error]_vars

\* C24 witness: a call was refused while the controller had accumulated
\* state in a mode other than the initial one
C24_Witness ==
    /\ op = "set_flight_mode"
    /\ ret = FALSE
    /\ flight_mode = 1
    /\ integral # Zero3
    /\ prev_error # Zero3

(***************************************************************************)
(* Properties of the button controls                                       *)
(***************************************************************************)

\* a pass of the loop with the buttons in the positions mp, pp
ControlsStep(mp, pp) ==
    \E att \in ControlAttitudes, m \in SysMeasurements, busy \in ButtonGaps :
        controls_loop(att, mp, pp, m, busy)

\* the debounce time has passed since the last click
DebounceOver == ticks_diff(now, last_button_time) >= button_debounce

\* the pass sees a click of the mode button, of the power button
ModeClick(mp) == DebounceOver /\ mp /\ ~mode_button_last

PowerClick(pp) == DebounceOver /\ pp /\ ~power_button_last

\* C31: a power click handled while stabilization is active (it was, or the
\* mode click of the same pass has just activated it) deactivates the
\* system with the control servos at neutral and _handle_controls leaves
\* the release mechanism as it was; a power click handled while inactive
\* invokes emergency_release() and leaves the system inactive.  So the
\* mechanism is forced to RELEASED by the buttons only in a pass where
\* stabilization is inactive when the power click is handled.
C31_PowerClick ==
    [][\A mp \in BOOLEAN, pp \in BOOLEAN :
          ControlsStep(mp, pp) =>
            LET activeAtPower == system_active \/ ModeClick(mp)
                h == handle_controls(Sys, mp, pp, "none")
            IN /\ (PowerClick(pp) /\ activeAtPower) =>
                    /\ ~system_active'
                    /\ ctrl' = Neutral4
                    /\ h.rel.state = state
                    /\ h.rel.servoAngle = servoAngle
                    /\ h.rel.release_time = release_time
                    /\ h.rel.armed_time = armed_time
               /\ (PowerClick(pp) /\ ~activeAtPower) =>
                    /\ ~system_active'
                    /\ state' = "RELEASED"
                    /\ servoAngle' = release_position
                    /\ release_time' = now
               /\ (state' = "RELEASED" /\ state # "RELEASED") =>
                    (PowerClick(pp) /\ ~activeAtPower)]_vars

\* C31 witness: stabilization was active with the servos deflected, a power
\* click a debounce time after the activating mode click has deactivated it,
\* and the release mechanism is still LOCKED
C31_Witness ==
    /\ op = "main_loop"
    /\ loop_count = 2
    /\ ~system_active
    /\ power_button_last
    /\ ~mode_button_last
    /\ last_button_time > 1000
    /\ commands # Neutral4
    /\ ctrl = Neutral4
    /\ state = "LOCKED"

\* a pass of either kind with the buttons in the positions mp, pp
AnyPass(mp, pp) == ControlsStep(mp, pp) \/ (~pp /\ mode_loop(mp))

\* C32: flight_mode is always a valid index of FLIGHT_MODES; a mode click
\* while inactive activates stabilization without changing flight_mode; a
\* mode click while active sets flight_mode to (flight_mode + 1) mod
\* len(FLIGHT_MODES) and leaves integral and prev_error zeroed, so that the
\* PID computation of the same pass starts from zero; without a mode click
\* flight_mode does not change.
C32_ModeClick ==
    [][\A mp \in BOOLEAN, pp \in BOOLEAN :
          AnyPass(mp, pp) =>
            LET h == handle_controls(Sys, mp, pp, "none")
            IN /\ flight_mode \in 0 .. NumModes - 1
               /\ flight_mode' \in 0 .. NumModes - 1
               /\ (ModeClick(mp) /\ ~system_active) =>
                    /\ flight_mode' = flight_mode
                    /\ system_active' = ~PowerClick(pp)
               /\ (ModeClick(mp) /\ system_active) =>
                    /\ flight_mode' = (flight_mode + 1) % NumModes
                    /\ h.integral = Zero3
                    /\ h.prev_error = Zero3
                    /\ system_active' = ~PowerClick(pp)
                    /\ system_active' =>
                         \E att \in ControlAttitudes :
                            /\ prev_error' = Errors(flight_mode', att)
                            /\ integral' =
                                 [i \in 1..3 |->
                                     (prev_error'[i] * default_dt) \div 1000]
               /\ ~ModeClick(mp) => flight_mode' = flight_mode]_vars

\* C32 witness: a mode click while active has just taken the controller
\* from mode 1 to mode 2, and the PID computation of the pass started from
\* zero
C32_Witness ==
    /\ op = "main_loop"
    /\ system_active
    /\ mode_button_last
    /\ last_button_time = now - button_debounce - 1000 \div main_loop_frequency
    /\ flight_mode = 2
    /\ prev_error = <<0 - 50000, 0 - 35000, 0 - 30000>>
    /\ integral = <<0 - 5000, 0 - 3500, 0 - 3000>>

\* C33: whenever stabilization goes from inactive to active, integral and
\* prev_error are zero before the first PID computation of the active
\* period: that computation, in the pass of the activation, has the
\* integral of one step and the derivative of a step from zero, whatever an
\* earlier active period had accumulated.
C33_ActivationStartsFromZero ==
    [][\A mp \in BOOLEAN, pp \in BOOLEAN :
          (ControlsStep(mp, pp) /\ ~system_active /\ ModeClick(mp)) =>
            LET h == handle_controls(Sys, mp, pp, "none")
            IN /\ h.integral = Zero3
               /\ h.prev_error = Zero3
               /\ system_active' = ~PowerClick(pp)
               /\ system_active' =>
                    \E att \in ControlAttitudes :
                       LET e == Errors(flight_mode', att)
                           I == [i \in 1..3 |-> (e[i] * default_dt) \div 1000]
                           d == [i \in 1..3 |-> (e[i] * 1000) \div default_dt]
                       IN /\ prev_error' = e
                          /\ integral' = I
                          /\ pid_out' = Outputs(flight_mode', e, I, d)]_vars

\* C33 witness: the third pass has activated stabilization by a mode click,
\* a debounce time and the alert of a deactivation after the start, and its
\* PID computation has left the integral and the error of a single step
C33_Witness ==
    /\ op = "main_loop"
    /\ loop_count = 3
    /\ system_active
    /\ mode_button_last
    /\ last_button_time =
          1000 + (button_debounce + 1000 \div main_loop_frequency)
               + (alert_duration(3, AlertLed) + 1000 \div main_loop_frequency)
    /\ integral = <<0 - 5000, 0 - 4000, 0 - 3000>>
    /\ prev_error = <<0 - 50000, 0 - 40000, 0 - 30000>>

(***************************************************************************)
(* ButtonManager.read_buttons() called on its own                          *)
(***************************************************************************)
\* calls of read_buttons() in a behaviour
MaxButtonCalls == 4

\* time between two calls (ms): the period of the main loop, or the debounce
\* time
ButtonDeltas == {1000 \div main_loop_frequency, button_debounce}

\* history of one button after a call that found it down or up and reported
\* a click or none: a press is a run of calls that find the button down
note_press(h, down, clicked) ==
    IF down
    THEN [down |-> TRUE,
          calls |-> (IF h.down THEN h.calls ELSE 0) + 1,
          clicks |-> (IF h.down THEN h.clicks ELSE 0)
                        + (IF clicked THEN 1 ELSE 0)]
    ELSE [h EXCEPT !.down = FALSE]

\* a call of read_buttons() d ms after the last one; mp, pp: the mode and
\* the power button are held down
read_buttons_call(d, mp, pp) ==
    LET c == read_buttons([Sys EXCEPT !.rel.now = now + d], mp, pp)
    IN /\ now' = now + d
       /\ op' = "read_buttons"
       /\ ret' = FALSE
       /\ raised' = FALSE
       /\ mode_button_last' = c.mode_button_last
       /\ power_button_last' = c.power_button_last
       /\ last_button_time' = c.last_button_time
       /\ presses' = [calls |-> presses.calls + 1,
                      mode |-> note_press(presses.mode, mp, c.mode),
                      power |-> note_press(presses.power, pp, c.power)]
       /\ UNCHANGED <<relVars, emergency_override, rcVars, histVars, pidVars,
                      pid_integral, firmware, esp32, simulator, pollVars, pc,
                      system_active, loop_count, last_telemetry_time, ctrl,
                      ctrlDeinit, sensorVars>>

ReadButtons ==
    \E d \in ButtonDeltas, mp \in BOOLEAN, pp \in BOOLEAN :
        presses.calls < MaxButtonCalls /\ read_buttons_call(d, mp, pp)

NextButtons == ReadButtons

SpecButtons == InitSystem /\ [][NextButtons]_vars

\* C34: read_buttons() returns a single event per press: a click of a
\* button is reported only when the button is down and was last seen
\* released; no click of either button is reported before button_debounce
\* ms have passed since the last reported click; and a press, the button
\* held down across any number of calls, yields exactly one click: never
\* more than one, and one by the time the button is found released.
C34_OneClickPerPress ==
    [][\A d \in ButtonDeltas, mp \in BOOLEAN, pp \in BOOLEAN :
          read_buttons_call(d, mp, pp) =>
            LET c == read_buttons([Sys EXCEPT !.rel.now = now + d], mp, pp)
            IN /\ c.mode => (mp /\ ~mode_button_last)
               /\ c.power => (pp /\ ~power_button_last)
               /\ (c.mode \/ c.power) =>
                     (now + d) - last_button_time >= button_debounce
               /\ presses'.mode.clicks <= 1
               /\ presses'.power.clicks <= 1
               /\ (presses.mode.down /\ ~mp) => presses.mode.clicks = 1
               /\ (presses.power.down /\ ~pp) => presses.power.clicks = 1]_vars

(***************************************************************************)
(* The release mechanism after cleanup()                                   *)
(***************************************************************************)

=========================================================================
